---- MODULE Spec2Model ----
(***************************************************************************)
(* A model of whackadep's code analysis (analysis/src/code.rs): the        *)
(* exclusive-dependency filter, the per-package caches, the dependency     *)
(* roll-up report and the analyze_code driver, over bounded dependency     *)
(* graphs; and of depdive's update summary (depdive/src/lib.rs) and GitHub *)
(* client (depdive/src/github.rs).                                         *)
(*                                                                         *)
(* The specifications share the variables:                                 *)
(*   SpecFilter  filter_exclusive_deps applied to any root of any graph    *)
(*               and to any ordering of that root's transitive set;        *)
(*   SpecDep     get_dep_report and get_unsafe_report applied to any       *)
(*               package list, for any content of the geiger cache;        *)
(*   Spec        a run of analyze_code;                                    *)
(*   SpecAdd     the + operators of LOCReport and UnsafeDetails applied to *)
(*               any operands;                                             *)
(*   SpecRace    calls of get_loc_report interleaved at the cache;         *)
(*   SpecSummary get_summary_report for any outcome of the update review;  *)
(*   SpecRepo    run_update_analyzer_from_repo_commits, step by step;      *)
(*   SpecGithub  analyze_github, request by request.                       *)
(* History variables count the runs of the two collaborators (tokei and    *)
(* cargo geiger) and remember what cargo geiger returned first.            *)
(***************************************************************************)
EXTENDS Integers, Sequences, FiniteSets, TLC

\* Number of packages of the dependency graph (workspace members included).
NumPkgs == 4

\* Largest number of workspace members.
MaxWorkspace == 2

VARIABLES
    links,                  \* PackageGraph: the dependency links <<from, to>>
    workspace,              \* PackageGraph: the ids of the workspace members
    has_build_script,       \* PackageMetadata::has_build_script of each package
    source_loc,             \* what tokei counts in each package's directory
    loc_cache,              \* CodeAnalyzer.loc_cache
    geiger_cache,           \* CodeAnalyzer.geiger_cache
    pc,                     \* position of the caller
    package_paths,          \* analyze_code: manifests still to hand to cargo geiger
    direct_dependencies,    \* analyze_code: direct dependencies still to analyze
    package,                \* the package the last call was about (0: none yet)
    dependencies,           \* the package list handed to the last call
    exclusive_dependencies, \* the Vec returned by the last filter_exclusive_deps
    dep_report,             \* the last report over `dependencies`
    exclusive_dep_report,   \* the last report over `exclusive_dependencies`
    code_reports,           \* analyze_code: the reports pushed so far
    returned_unsafe_report, \* what the last get_unsafe_report returned
    loc_requests,           \* history: calls of get_loc_report, per directory
    tokei_runs,             \* history: runs of tokei, per directory
    geiger_runs,            \* history: the runs of cargo geiger, in order
    geiger_first,           \* history: per key, the record cargo geiger gave first
    geiger_diverged,        \* history: keys later given with another record
    operands,               \* the operands <<self, rhs>> of the last +
    sum,                    \* the result of the last +
    callers,                \* the calls of get_loc_report under way
    update_review_report,   \* what run_update_analyzer returned
    summary_report,         \* what get_summary_report returned
    repo,                   \* the git repository: HEAD and the working tree
    commits,                \* the arguments <<commit_a, commit_b>>
    repository,             \* PackageMetadata::repository of the package
    endpoint,               \* the GitHub API endpoint of the call under way
    response,               \* the last response to that call
    sends,                  \* how often the request of that call was sent
    github_report,          \* what analyze_github returned
    last_commit_date,       \* the committer date of the last commit
    duration,               \* what get_time_since_last_commit returned
    repo_stats              \* what get_github_repo_stats returned

vars == <<links, workspace, has_build_script, source_loc, loc_cache, geiger_cache,
          pc, package_paths, direct_dependencies, package, dependencies,
          exclusive_dependencies, dep_report, exclusive_dep_report, code_reports,
          returned_unsafe_report, loc_requests, tokei_runs, geiger_runs, geiger_first,
          geiger_diverged, operands, sum, callers, update_review_report,
          summary_report, repo, commits, repository, endpoint, response, sends,
          github_report, last_commit_date, duration, repo_stats>>

\* The variables of the counters of get_loc_report and tokei.
locHistory == <<loc_requests, tokei_runs>>

\* The variables of the history of cargo geiger's runs.
geigerHistory == <<geiger_runs, geiger_first, geiger_diverged>>

\* The variables of the + operators' calls.
addVars == <<operands, sum>>

\* The variables of the interleaved calls of get_loc_report.
raceVars == <<callers>>

\* The variables of the update review (depdive/src/lib.rs).
updateVars == <<update_review_report, summary_report, repo, commits>>

\* The variables of the GitHub analysis (depdive/src/github.rs).
githubVars == <<repository, endpoint, response, sends, github_report,
                last_commit_date, duration, repo_stats>>

\* The variables of depdive.
depdiveVars == <<updateVars, githubVars>>

\* The variables of the code analysis (analysis/src/code.rs), but pc.
analyzerVars ==
    <<links, workspace, has_build_script, source_loc, loc_cache, geiger_cache,
      package_paths, direct_dependencies, package, dependencies,
      exclusive_dependencies, dep_report, exclusive_dep_report, code_reports,
      returned_unsafe_report, locHistory, geigerHistory, addVars>>

----------------------------------------------------------------------------
\* Helpers on sets and sequences

SeqToSet(s) == {s[i] : i \in 1..Len(s)}

\* Every ordering of the finite set S, as sequences without repetition.
Perms(S) ==
    {f \in [1..Cardinality(S) -> S] : \A i, j \in 1..Cardinality(S) : f[i] = f[j] => i = j}

\* Every sequence without repetition over a subset of S.
DistinctSeqs(S) == UNION {Perms(T) : T \in SUBSET S}

----------------------------------------------------------------------------
\* The dependency graph (guppy's PackageGraph)

Packages == 1..NumPkgs

\* Dependency graphs are acyclic: the ids number the packages in a
\* topological order, so every link goes from a lower to a higher id.
PossibleLinks == {l \in Packages \X Packages : l[1] < l[2]}

\* The workspace members are the roots of the graph: the first k packages.
Workspaces == {1..k : k \in 1..MaxWorkspace}

in_workspace(p) == p \in workspace

\* PackageMetadata::reverse_direct_links, as the ids the links come from.
reverse_direct_links(dep) == {l[1] : l \in {m \in links : m[2] = dep}}

\* PackageMetadata::direct_links, as the ids the links go to.
direct_links(p) == {l[2] : l \in {m \in links : m[1] = p}}

\* graph.query_forward(roots).resolve(): every package reachable from roots.
RECURSIVE Reach(_, _)
Reach(frontier, seen) ==
    IF frontier \subseteq seen THEN seen
    ELSE Reach(UNION {direct_links(p) : p \in frontier} \ (seen \cup frontier),
               seen \cup frontier)

query_forward(roots) == Reach(roots, {})

\* TopoOrders, had the direction been DependencyDirection::Reverse: every
\* package is listed after the packages it depends on.
TopoOrdersReverse(S) ==
    {s \in Perms(S) : \A i, j \in 1..Len(s) : <<s[j], s[i]>> \in links => i < j}

\* PackageSet::packages(DependencyDirection::Forward): the orderings that
\* list every package before the packages it depends on.
TopoOrders(S) ==
    {s \in Perms(S) : \A i, j \in 1..Len(s) : <<s[j], s[i]>> \in links => j < i}

\* get_package_dependencies: the packages reachable from `pkg`, without
\* `pkg`, in one of guppy's forward orders.
get_package_dependencies(pkg) == TopoOrders(query_forward({pkg}) \ {pkg})

----------------------------------------------------------------------------
\* filter_exclusive_deps

\* IsUnique, had a second dependent inside the subtree been enough to make a
\* dependency common.
IsUniqueSingleDependent(dep, package_deps, common_deps) ==
    /\ Cardinality(reverse_direct_links(dep)) <= 1
    /\ \A from_id \in reverse_direct_links(dep) :
          ~(from_id \notin package_deps \/ from_id \in common_deps)

\* IsUnique, had the dependents not been looked up in common_deps.
IsUniqueIgnoringCommon(dep, package_deps, common_deps) ==
    \A from_id \in reverse_direct_links(dep) : from_id \in package_deps

\* The inner loop over dep.reverse_direct_links(): `unique` stays true when
\* no link comes from outside the subtree or from a common dependency.
IsUnique(dep, package_deps, common_deps) ==
    \A from_id \in reverse_direct_links(dep) :
        ~(from_id \notin package_deps \/ from_id \in common_deps)

\* ExclusiveLoop, had `unique` been declared before the outer loop: once a
\* dependency is common, no later one is inserted.
RECURSIVE ExclusiveLoopHoisted(_, _, _, _, _)
ExclusiveLoopHoisted(deps, i, package_deps, common_deps, exclusive_deps) ==
    IF i > Len(deps) THEN exclusive_deps
    ELSE IF IsUnique(deps[i], package_deps, common_deps)
         THEN ExclusiveLoopHoisted(deps, i + 1, package_deps, common_deps,
                                   IF common_deps = {}
                                   THEN exclusive_deps \cup {deps[i]}
                                   ELSE exclusive_deps)
         ELSE ExclusiveLoopHoisted(deps, i + 1, package_deps,
                                   common_deps \cup {deps[i]}, exclusive_deps)

\* The outer loop `for dep in pacakge_dependencies`, from position i on.
RECURSIVE ExclusiveLoop(_, _, _, _, _)
ExclusiveLoop(deps, i, package_deps, common_deps, exclusive_deps) ==
    IF i > Len(deps) THEN exclusive_deps
    ELSE IF IsUnique(deps[i], package_deps, common_deps)
         THEN ExclusiveLoop(deps, i + 1, package_deps, common_deps,
                            exclusive_deps \cup {deps[i]})
         ELSE ExclusiveLoop(deps, i + 1, package_deps,
                            common_deps \cup {deps[i]}, exclusive_deps)

\* SubtreeOf, had the root not been added to the tree.
SubtreeWithoutRoot(pkg, pacakge_dependencies) == SeqToSet(pacakge_dependencies)

\* The subtree the filter looks dependents up in: the dependencies and the root.
SubtreeOf(pkg, pacakge_dependencies) == SeqToSet(pacakge_dependencies) \cup {pkg}

\* filter_exclusive_deps, had the loop run over the whole subtree (the
\* HashSet package_deps, root included) instead of the dependency list.
filter_exclusive_deps_over_subtree(pkg, pacakge_dependencies) ==
    ExclusiveLoop(Append(pacakge_dependencies, pkg), 1,
                  SubtreeOf(pkg, pacakge_dependencies), {}, {})

\* The keys of the exclusive_deps map when the loop is over.
filter_exclusive_deps(pkg, pacakge_dependencies) ==
    ExclusiveLoop(pacakge_dependencies, 1,
                  SubtreeOf(pkg, pacakge_dependencies), {}, {})

----------------------------------------------------------------------------
\* Package attributes

\* An absent Option is the empty sequence, Some(x) is <<x>>.
None == <<>>
Some(x) == <<x>>

\* A HashMap is a function on its keys.
EmptyMap == [k \in {} |-> None]

\* Insert, had a report been added onto the entry already there.
InsertAdding(map, key, value) ==
    [k \in DOMAIN map \cup {key} |->
        IF k # key THEN map[k]
        ELSE IF key \in DOMAIN map
             THEN [total_loc |-> map[key].total_loc + value.total_loc,
                   rust_loc |-> map[key].rust_loc + value.rust_loc]
             ELSE value]

\* HashMap::insert: the new value replaces an old one.
Insert(map, key, value) ==
    [k \in DOMAIN map \cup {key} |-> IF k = key THEN value ELSE map[k]]

name(p) == <<"pkg", p>>
version(p) == "1.0.0"
manifest_path(p) == <<"pkg", p, "Cargo.toml">>

\* Utf8Path::parent: the path without its last component, if it has one.
parent(path) == IF Len(path) = 0 THEN None ELSE Some(SubSeq(path, 1, Len(path) - 1))

\* The source directories tokei can be pointed at.
Dirs == {parent(manifest_path(p))[1] : p \in Packages}

----------------------------------------------------------------------------
\* Reports

ZeroLOC == [total_loc |-> 0, rust_loc |-> 0]

ZeroUnsafeDetails ==
    [functions |-> 0, expressions |-> 0, impls |-> 0, traits |-> 0, methods |-> 0]

ZeroDepReport ==
    [total_deps |-> 0,
     deps_total_loc_report |-> ZeroLOC,
     deps_with_build_script |-> 0,
     deps_analyzed_for_unsafe |-> 0,
     deps_forbidding_unsafe |-> 0,
     deps_using_unsafe |-> 0,
     deps_total_used_unsafe_details |-> ZeroUnsafeDetails]

\* AddLOC, had rust_loc been summed with the other report's total_loc.
AddLOCCrossed(self, rhs) ==
    [total_loc |-> self.total_loc + rhs.total_loc,
     rust_loc |-> self.rust_loc + rhs.total_loc]

\* impl ops::Add<LOCReport> for LOCReport
AddLOC(self, rhs) ==
    [total_loc |-> self.total_loc + rhs.total_loc,
     rust_loc |-> self.rust_loc + rhs.rust_loc]

\* impl ops::Add<UnsafeDetails> for UnsafeDetails (impls adds rhs.expressions)
AddUnsafeDetails(self, rhs) ==
    [functions |-> self.functions + rhs.functions,
     expressions |-> self.expressions + rhs.expressions,
     impls |-> self.impls + rhs.expressions,
     traits |-> self.traits + rhs.traits,
     methods |-> self.methods + rhs.methods]

\* What the line counter reports for each directory: a different size for
\* each package, some of them without any Rust code.
SourceLocFixture ==
    [d \in Dirs |-> [total_loc |-> 120 + d[2],
                     rust_loc |-> IF d[2] % 3 = 0 THEN 0 ELSE 100 + d[2]]]

----------------------------------------------------------------------------
\* cargo geiger's output

\* An UnsafeInfo with the given unsafe counts (and some safe ones).
MkUnsafeInfo(f, e, i, t, m) ==
    [functions |-> [safe |-> 5, unsafe_ |-> f],
     exprs |-> [safe |-> 9, unsafe_ |-> e],
     item_impls |-> [safe |-> 4, unsafe_ |-> i],
     item_traits |-> [safe |-> 3, unsafe_ |-> t],
     methods |-> [safe |-> 6, unsafe_ |-> m]]

\* The Unsafety values the scanner reports: a package forbidding unsafe with
\* no unsafe code, one forbidding it that still has counts, one with unsafe
\* items but no unsafe expression, one with unsafe expressions.
UnsafetySamples ==
    {[used |-> MkUnsafeInfo(0, 0, 0, 0, 0), unused |-> MkUnsafeInfo(1, 2, 0, 1, 0),
      forbids_unsafe |-> TRUE],
     [used |-> MkUnsafeInfo(0, 1, 0, 0, 2), unused |-> MkUnsafeInfo(0, 0, 0, 0, 0),
      forbids_unsafe |-> TRUE],
     [used |-> MkUnsafeInfo(1, 0, 2, 1, 0), unused |-> MkUnsafeInfo(0, 3, 1, 0, 0),
      forbids_unsafe |-> FALSE],
     [used |-> MkUnsafeInfo(0, 1, 0, 0, 2), unused |-> MkUnsafeInfo(2, 0, 0, 0, 1),
      forbids_unsafe |-> FALSE]}

\* GeigerPackageInfo of package p with the given Unsafety.
GeigerPackageInfo(p, unsafety) ==
    [package |-> [id |-> [name |-> name(p), version |-> version(p)]],
     unsafety |-> unsafety]

\* The ascending sequence of the elements of a set of package ids.
RECURSIVE Ascending(_)
Ascending(S) ==
    IF S = {} THEN <<>>
    ELSE LET least == CHOOSE x \in S : \A y \in S : x <= y
         IN <<least>> \o Ascending(S \ {least})

\* The GeigerReport.packages listing the packages of DOMAIN f, f[p] being the
\* Unsafety reported for p.
PackagesOf(f) ==
    LET order == Ascending(DOMAIN f)
    IN [i \in 1..Len(order) |-> GeigerPackageInfo(order[i], f[order[i]])]

\* WorkspaceManifests, had cargo geiger been run for the first member only.
WorkspaceManifestsFirstOnly ==
    <<manifest_path(Ascending(workspace)[1])>>

\* graph.workspace().iter().map(manifest_path): the manifests of the members.
WorkspaceManifests ==
    [i \in 1..Len(Ascending(workspace)) |-> manifest_path(Ascending(workspace)[i])]

\* Every report over a subset of the packages S (a package the report leaves
\* out is a scanner gap).
GeigerReports(S) ==
    {PackagesOf(f) : f \in UNION {[T -> UnsafetySamples] : T \in SUBSET S}}

----------------------------------------------------------------------------
\* The caches

\* get_cargo_geiger_report_from_cache, had the lookup never found a record.
get_cargo_geiger_report_from_cache_missing(cache, key) == None

get_cargo_geiger_report_from_cache(cache, key) ==
    IF key \in DOMAIN cache THEN Some(cache[key]) ELSE None

\* MergeGeigerPackages, had every record been inserted without the lookup.
RECURSIVE MergeGeigerPackagesOverwriting(_, _, _)
MergeGeigerPackagesOverwriting(cache, geiger_packages, i) ==
    IF i > Len(geiger_packages) THEN cache
    ELSE LET geiger_package == geiger_packages[i]
             id == geiger_package.package.id
             key == <<id.name, id.version>>
         IN MergeGeigerPackagesOverwriting(
                Insert(cache, key, geiger_package), geiger_packages, i + 1)

\* The inner loop of get_cargo_geiger_report_for_workspace: merge the
\* packages of one report, from position i on; a key already cached is kept.
RECURSIVE MergeGeigerPackages(_, _, _)
MergeGeigerPackages(cache, geiger_packages, i) ==
    IF i > Len(geiger_packages) THEN cache
    ELSE LET geiger_package == geiger_packages[i]
             id == geiger_package.package.id
             key == <<id.name, id.version>>
         IN MergeGeigerPackages(
                IF get_cargo_geiger_report_from_cache(cache, key) = None
                THEN Insert(cache, key, geiger_package)
                ELSE cache,
                geiger_packages, i + 1)

\* get_unsafe_report, had it read the counts of safe items.
get_unsafe_report_of_safe_counts(cache, pkg_name, pkg_version) ==
    LET found == get_cargo_geiger_report_from_cache(cache, <<pkg_name, pkg_version>>)
    IN IF found = None THEN None
       ELSE LET unsafety == found[1].unsafety
            IN Some([forbids_unsafe |-> unsafety.forbids_unsafe,
                     used_unsafe_count |->
                         [functions |-> unsafety.used.functions.safe,
                          expressions |-> unsafety.used.exprs.safe,
                          impls |-> unsafety.used.item_impls.safe,
                          traits |-> unsafety.used.item_traits.safe,
                          methods |-> unsafety.used.methods.safe],
                     unused_unsafe_count |->
                         [functions |-> unsafety.unused.functions.safe,
                          expressions |-> unsafety.unused.exprs.safe,
                          impls |-> unsafety.unused.item_impls.safe,
                          traits |-> unsafety.unused.item_traits.safe,
                          methods |-> unsafety.unused.methods.safe]])

\* get_unsafe_report, had a package without a record been given an all-zero
\* report.
get_unsafe_report_defaulting(cache, pkg_name, pkg_version) ==
    LET found == get_cargo_geiger_report_from_cache(cache, <<pkg_name, pkg_version>>)
    IN IF found = None
       THEN Some([forbids_unsafe |-> FALSE,
                  used_unsafe_count |-> ZeroUnsafeDetails,
                  unused_unsafe_count |-> ZeroUnsafeDetails])
       ELSE LET unsafety == found[1].unsafety
            IN Some([forbids_unsafe |-> unsafety.forbids_unsafe,
                     used_unsafe_count |->
                         [functions |-> unsafety.used.functions.unsafe_,
                          expressions |-> unsafety.used.exprs.unsafe_,
                          impls |-> unsafety.used.item_impls.unsafe_,
                          traits |-> unsafety.used.item_traits.unsafe_,
                          methods |-> unsafety.used.methods.unsafe_],
                     unused_unsafe_count |->
                         [functions |-> unsafety.unused.functions.unsafe_,
                          expressions |-> unsafety.unused.exprs.unsafe_,
                          impls |-> unsafety.unused.item_impls.unsafe_,
                          traits |-> unsafety.unused.item_traits.unsafe_,
                          methods |-> unsafety.unused.methods.unsafe_]])

\* get_unsafe_report: the unsafe counts of the cached record, if there is one.
get_unsafe_report(cache, pkg_name, pkg_version) ==
    LET found == get_cargo_geiger_report_from_cache(cache, <<pkg_name, pkg_version>>)
    IN IF found = None THEN None
       ELSE LET unsafety == found[1].unsafety
            IN Some([forbids_unsafe |-> unsafety.forbids_unsafe,
                     used_unsafe_count |->
                         [functions |-> unsafety.used.functions.unsafe_,
                          expressions |-> unsafety.used.exprs.unsafe_,
                          impls |-> unsafety.used.item_impls.unsafe_,
                          traits |-> unsafety.used.item_traits.unsafe_,
                          methods |-> unsafety.used.methods.unsafe_],
                     unused_unsafe_count |->
                         [functions |-> unsafety.unused.functions.unsafe_,
                          expressions |-> unsafety.unused.exprs.unsafe_,
                          impls |-> unsafety.unused.item_impls.unsafe_,
                          traits |-> unsafety.unused.item_traits.unsafe_,
                          methods |-> unsafety.unused.methods.unsafe_]])

\* The line counter (tokei) run on a directory.
get_statistics(dir) == source_loc[dir]

\* get_loc_report, had the lookup in the cache been left out: every call
\* runs tokei.
get_loc_report_without_lookup(cache, path) ==
    IF parent(path) = None
    THEN [ok |-> FALSE, report |-> ZeroLOC, cache |-> cache, scanned |-> <<>>]
    ELSE LET dir == parent(path)[1]
             filled == Insert(cache, dir, get_statistics(dir))
         IN [ok |-> TRUE, report |-> filled[dir], cache |-> filled,
             scanned |-> <<dir>>]

\* get_loc_report: the cached report of the manifest's directory, or a scan
\* whose result is put in the cache. `ok` is false when an error is returned;
\* `scanned` lists the directories tokei was run on.
get_loc_report(cache, path) ==
    IF parent(path) = None
    THEN [ok |-> FALSE, report |-> ZeroLOC, cache |-> cache, scanned |-> <<>>]
    ELSE LET dir == parent(path)[1]
         IN IF dir \in DOMAIN cache
            THEN [ok |-> TRUE, report |-> cache[dir], cache |-> cache,
                  scanned |-> <<>>]
            ELSE LET filled == Insert(cache, dir, get_statistics(dir))
                 IN [ok |-> TRUE, report |-> filled[dir], cache |-> filled,
                     scanned |-> <<dir>>]

----------------------------------------------------------------------------
\* get_dep_report

\* UsingIncrement, had the test of forbids_unsafe been left out.
UsingIncrementIgnoringForbid(unsafe_report) ==
    IF unsafe_report.used_unsafe_count.expressions > 0 THEN 1 ELSE 0

\* ForbiddingIncrement, had forbids_unsafe not been tested.
ForbiddingIncrementAlways(unsafe_report) == 1

\* What a present unsafe report adds to deps_forbidding_unsafe.
ForbiddingIncrement(unsafe_report) ==
    IF unsafe_report.forbids_unsafe THEN 1 ELSE 0

\* What a present unsafe report adds to deps_using_unsafe.
UsingIncrement(unsafe_report) ==
    IF unsafe_report.forbids_unsafe THEN 0
    ELSE IF unsafe_report.used_unsafe_count.expressions > 0 THEN 1 ELSE 0

\* CountPackage, had the package's LOC report been assigned to the total
\* instead of added to it.
CountPackageAssigningLoc(acc, pkg, loc_report, unsafe_report) ==
    LET counted ==
            [acc EXCEPT
                !.deps_total_loc_report = loc_report,
                !.deps_with_build_script = @ + (IF has_build_script[pkg] THEN 1 ELSE 0)]
    IN IF unsafe_report = None THEN counted
       ELSE [counted EXCEPT
                !.deps_analyzed_for_unsafe = @ + 1,
                !.deps_forbidding_unsafe = @ + ForbiddingIncrement(unsafe_report[1]),
                !.deps_using_unsafe = @ + UsingIncrement(unsafe_report[1]),
                !.deps_total_used_unsafe_details =
                    AddUnsafeDetails(@, unsafe_report[1].used_unsafe_count)]

\* The body of the loop over the dependencies, once the package's LOC report
\* and unsafe report are fetched.
CountPackage(acc, pkg, loc_report, unsafe_report) ==
    LET counted ==
            [acc EXCEPT
                !.deps_total_loc_report = AddLOC(@, loc_report),
                !.deps_with_build_script = @ + (IF has_build_script[pkg] THEN 1 ELSE 0)]
    IN IF unsafe_report = None THEN counted
       ELSE [counted EXCEPT
                !.deps_analyzed_for_unsafe = @ + 1,
                !.deps_forbidding_unsafe = @ + ForbiddingIncrement(unsafe_report[1]),
                !.deps_using_unsafe = @ + UsingIncrement(unsafe_report[1]),
                !.deps_total_used_unsafe_details =
                    AddUnsafeDetails(@, unsafe_report[1].used_unsafe_count)]

\* The loop `for package in dependencies`, from position i on; an error of
\* get_loc_report ends it. `scanned` lists the directories tokei was run on
\* so far.
RECURSIVE DepReportLoop(_, _, _, _, _, _)
DepReportLoop(deps, i, acc, cache, gcache, scanned) ==
    IF i > Len(deps)
    THEN [ok |-> TRUE, report |-> acc, cache |-> cache, scanned |-> scanned]
    ELSE LET loc == get_loc_report(cache, manifest_path(deps[i]))
         IN IF ~loc.ok
            THEN [ok |-> FALSE, report |-> acc, cache |-> loc.cache,
                  scanned |-> scanned \o loc.scanned]
            ELSE DepReportLoop(
                     deps, i + 1,
                     CountPackage(acc, deps[i], loc.report,
                                  get_unsafe_report(gcache, name(deps[i]),
                                                    version(deps[i]))),
                     loc.cache, gcache, scanned \o loc.scanned)

\* get_dep_report, had the loop left out the first package of the list.
get_dep_report_skipping_first(cache, gcache, deps) ==
    DepReportLoop(deps, 2, [ZeroDepReport EXCEPT !.total_deps = Len(deps)],
                  cache, gcache, <<>>)

\* get_dep_report over the list deps, with the loc cache and the geiger cache
\* it starts from: the report, the loc cache it leaves and the directories
\* tokei was run on.
get_dep_report(cache, gcache, deps) ==
    DepReportLoop(deps, 1, [ZeroDepReport EXCEPT !.total_deps = Len(deps)],
                  cache, gcache, <<>>)

----------------------------------------------------------------------------
\* The history of the collaborators' runs

\* No call counted yet, for any directory.
NoCalls == [d \in Dirs |-> 0]

\* The counters `calls` after one more call for each directory of the
\* sequence dirs.
RECURSIVE Counted(_, _)
Counted(calls, dirs) ==
    IF dirs = <<>> THEN calls
    ELSE Counted([calls EXCEPT ![Head(dirs)] = @ + 1], Tail(dirs))

\* The directories get_loc_report is called for by get_dep_report(deps).
RequestedDirs(deps) ==
    [i \in 1..Len(deps) |-> parent(manifest_path(deps[i]))[1]]

\* The cache key of a record of cargo geiger.
RecordKey(geiger_package) ==
    <<geiger_package.package.id.name, geiger_package.package.id.version>>

\* Per key, the record cargo geiger returned first: `first` after the
\* records of one more report.
ReturnedFirst(first, geiger_report) ==
    LET keys == {RecordKey(geiger_report[i]) : i \in 1..Len(geiger_report)}
        earliest(k) == CHOOSE i \in 1..Len(geiger_report) :
                          /\ RecordKey(geiger_report[i]) = k
                          /\ \A j \in 1..(i - 1) : RecordKey(geiger_report[j]) # k
    IN [k \in DOMAIN first \cup keys |->
           IF k \in DOMAIN first THEN first[k] ELSE geiger_report[earliest(k)]]

\* The keys for which the report holds a record that differs from the one
\* returned first.
Diverging(first, geiger_report) ==
    {RecordKey(geiger_report[i]) : i \in
        {j \in 1..Len(geiger_report) :
            geiger_report[j] #
                ReturnedFirst(first, geiger_report)[RecordKey(geiger_report[j])]}}

----------------------------------------------------------------------------
\* Calls of get_dep_report on any package list

\* The packages outside the workspace.
External == Packages \ workspace

\* A fresh CodeAnalyzer with its collaborators: nothing was called yet.
NothingCalled ==
    /\ returned_unsafe_report = None
    /\ loc_requests = NoCalls
    /\ tokei_runs = NoCalls
    /\ geiger_runs = <<>>
    /\ geiger_first = EmptyMap
    /\ geiger_diverged = {}
    /\ operands = <<>>
    /\ sum = ZeroLOC
    /\ callers = <<>>
    /\ update_review_report = None
    /\ summary_report = None
    /\ repo = [head |-> 0, working_tree |-> 0]
    /\ commits = <<>>
    /\ repository = None
    /\ endpoint = "none"
    /\ response = None
    /\ sends = 0
    /\ github_report = None
    /\ last_commit_date = 0
    /\ duration = None
    /\ repo_stats = None

\* The packages with a build script: none, every package outside the
\* workspace, those of even id or those of odd id.
BuildScriptFlags ==
    {[p \in Packages |-> p \in S /\ p \in External] :
        S \in {{}, Packages, {q \in Packages : q % 2 = 0},
               {q \in Packages : q % 2 = 1}}}

InitDep ==
    /\ links = {}
    /\ workspace \in Workspaces
    /\ has_build_script \in BuildScriptFlags
    /\ source_loc = SourceLocFixture
    /\ loc_cache = EmptyMap
    /\ geiger_cache = EmptyMap
    /\ pc = "geiger"
    /\ package_paths = WorkspaceManifests
    /\ direct_dependencies = <<>>
    /\ package = 0
    /\ dependencies = <<>>
    /\ exclusive_dependencies = <<>>
    /\ dep_report = ZeroDepReport
    /\ exclusive_dep_report = ZeroDepReport
    /\ code_reports = <<>>
    /\ NothingCalled

\* One turn of the loop of get_cargo_geiger_report_for_workspace: cargo
\* geiger succeeds on the next manifest and its packages are merged.
MergeGeigerReport(geiger_report) ==
    /\ pc = "geiger"
    /\ package_paths # <<>>
    /\ geiger_cache' = MergeGeigerPackages(geiger_cache, geiger_report, 1)
    /\ package_paths' = Tail(package_paths)
    /\ geiger_runs' = Append(geiger_runs, [path |-> Head(package_paths), ok |-> TRUE])
    /\ geiger_first' = ReturnedFirst(geiger_first, geiger_report)
    /\ geiger_diverged' = geiger_diverged \cup Diverging(geiger_first, geiger_report)
    /\ UNCHANGED <<links, workspace, has_build_script, source_loc, loc_cache, pc,
                   direct_dependencies, package, dependencies,
                   exclusive_dependencies, dep_report, exclusive_dep_report,
                   code_reports, returned_unsafe_report,
                   locHistory, addVars,
                   raceVars, depdiveVars>>

\* The reports that list one package of S twice.
RepeatingReports(S) ==
    {<<GeigerPackageInfo(p, u[1]), GeigerPackageInfo(p, u[2])>> :
        p \in S, u \in UnsafetySamples \X UnsafetySamples}

\* cargo geiger reports any subset of the packages outside the workspace, or
\* one of them twice.
ScanAnyReport ==
    /\ pc = "geiger"
    /\ package_paths # <<>>
    /\ \E geiger_report \in GeigerReports(External) \cup RepeatingReports(External) :
         MergeGeigerReport(geiger_report)

\* get_dep_report(deps) on a list of distinct packages outside the workspace.
GetDepReport ==
    /\ pc = "geiger"
    /\ package_paths = <<>>
    /\ \E deps \in DistinctSeqs(External) :
         \E got \in {get_dep_report(loc_cache, geiger_cache, deps)} :
            /\ got.ok
            /\ dependencies' = deps
            /\ dep_report' = got.report
            /\ loc_cache' = got.cache
            /\ loc_requests' = Counted(loc_requests, RequestedDirs(deps))
            /\ tokei_runs' = Counted(tokei_runs, got.scanned)
    /\ pc' = "reported"
    /\ UNCHANGED <<links, workspace, has_build_script, source_loc, geiger_cache,
                   package_paths, direct_dependencies, package,
                   exclusive_dependencies, exclusive_dep_report, code_reports,
                   returned_unsafe_report, geigerHistory, addVars,
                   raceVars, depdiveVars>>

\* get_unsafe_report(name, version) for any package.
GetUnsafeReport ==
    /\ pc = "geiger"
    /\ package_paths = <<>>
    /\ \E pkg \in Packages :
         /\ package' = pkg
         /\ returned_unsafe_report' = get_unsafe_report(geiger_cache, name(pkg), version(pkg))
    /\ pc' = "looked up"
    /\ UNCHANGED <<links, workspace, has_build_script, source_loc, loc_cache,
                   geiger_cache, package_paths, direct_dependencies, dependencies,
                   exclusive_dependencies, dep_report, exclusive_dep_report,
                   code_reports, locHistory, geigerHistory, addVars,
                   raceVars, depdiveVars>>

NextDep == ScanAnyReport \/ GetDepReport \/ GetUnsafeReport

SpecDep == InitDep /\ [][NextDep]_vars

----------------------------------------------------------------------------
\* Calls of filter_exclusive_deps on any root and any ordering

InitFilter ==
    /\ links \in SUBSET PossibleLinks
    /\ workspace = {1}
    /\ has_build_script = [p \in Packages |-> FALSE]
    /\ source_loc = SourceLocFixture
    /\ loc_cache = EmptyMap
    /\ geiger_cache = EmptyMap
    /\ pc = "idle"
    /\ package_paths = <<>>
    /\ direct_dependencies = <<>>
    /\ package = 0
    /\ dependencies = <<>>
    /\ exclusive_dependencies = <<>>
    /\ dep_report = ZeroDepReport
    /\ exclusive_dep_report = ZeroDepReport
    /\ code_reports = <<>>
    /\ NothingCalled

\* filter_exclusive_deps(root, order): the returned Vec lists the values of
\* a HashMap, in any order.
FilterExclusiveDeps ==
    /\ pc = "idle"
    /\ \E root \in Packages :
         \E order \in Perms(query_forward({root}) \ {root}) :
           \E out \in Perms(filter_exclusive_deps(root, order)) :
             /\ package' = root
             /\ dependencies' = order
             /\ exclusive_dependencies' = out
    /\ pc' = "filtered"
    /\ UNCHANGED <<links, workspace, has_build_script, source_loc, loc_cache,
                   geiger_cache, package_paths, direct_dependencies, dep_report,
                   exclusive_dep_report, code_reports, returned_unsafe_report,
                   locHistory,
                   geigerHistory, addVars,
                   raceVars, depdiveVars>>

NextFilter == FilterExclusiveDeps

SpecFilter == InitFilter /\ [][NextFilter]_vars

----------------------------------------------------------------------------
\* analyze_code

\* The run is checked against one set of package attributes: every other
\* package has a build script.
BuildScriptFixture == [p \in Packages |-> p % 2 = 0]

\* What cargo geiger finds in package p during a run.
UnsafetyFixture(p) ==
    IF p % 2 = 0
    THEN [used |-> MkUnsafeInfo(0, 1, 0, 0, 2), unused |-> MkUnsafeInfo(2, 0, 0, 0, 1),
          forbids_unsafe |-> FALSE]
    ELSE [used |-> MkUnsafeInfo(0, 0, 0, 0, 0), unused |-> MkUnsafeInfo(1, 2, 0, 1, 0),
          forbids_unsafe |-> TRUE]

\* The reports cargo geiger can give for workspace member w: the packages of
\* w's dependency tree, all of them or all but one (a scanner gap). What it
\* finds in a package differs from one member's build to the next.
RunReports(w) ==
    LET tree == query_forward({w})
    IN {PackagesOf([p \in T |-> UnsafetyFixture(p + w - 1)]) :
            T \in {tree} \cup {tree \ {gap} : gap \in tree}}

\* The workspace member whose manifest is at `path`.
MemberAt(path) == CHOOSE w \in workspace : manifest_path(w) = path

Init ==
    /\ links \in SUBSET PossibleLinks
    /\ workspace \in Workspaces
    /\ has_build_script = BuildScriptFixture
    /\ source_loc = SourceLocFixture
    /\ loc_cache = EmptyMap
    /\ geiger_cache = EmptyMap
    /\ pc = "geiger"
    /\ package_paths = WorkspaceManifests
    /\ direct_dependencies = <<>>
    /\ package = 0
    /\ dependencies = <<>>
    /\ exclusive_dependencies = <<>>
    /\ dep_report = ZeroDepReport
    /\ exclusive_dep_report = ZeroDepReport
    /\ code_reports = <<>>
    /\ NothingCalled

\* cargo geiger succeeds on the next workspace member's manifest.
ScanWorkspaceMember ==
    /\ pc = "geiger"
    /\ package_paths # <<>>
    /\ \E geiger_report \in RunReports(MemberAt(Head(package_paths))) :
         MergeGeigerReport(geiger_report)

\* ScanFails, had the error been dropped and the loop gone on to the next
\* manifest.
ScanFailsAndContinues ==
    /\ pc = "geiger"
    /\ package_paths # <<>>
    /\ package_paths' = Tail(package_paths)
    /\ geiger_runs' = Append(geiger_runs, [path |-> Head(package_paths), ok |-> FALSE])
    /\ UNCHANGED <<links, workspace, has_build_script, source_loc, loc_cache,
                   geiger_cache, pc, direct_dependencies, package,
                   dependencies, exclusive_dependencies, dep_report,
                   exclusive_dep_report, code_reports, returned_unsafe_report,
                   locHistory, geiger_first, geiger_diverged, addVars,
                   raceVars, depdiveVars>>

\* cargo geiger fails on the next manifest (or its output does not parse):
\* the error is returned by analyze_code.
ScanFails ==
    /\ pc = "geiger"
    /\ package_paths # <<>>
    /\ pc' = "failed"
    /\ geiger_runs' = Append(geiger_runs, [path |-> Head(package_paths), ok |-> FALSE])
    /\ UNCHANGED <<links, workspace, has_build_script, source_loc, loc_cache,
                   geiger_cache, package_paths, direct_dependencies, package,
                   dependencies, exclusive_dependencies, dep_report,
                   exclusive_dep_report, code_reports, returned_unsafe_report,
                   locHistory,
                   geiger_first, geiger_diverged, addVars,
                   raceVars, depdiveVars>>

\* DirectDependencies, had the query followed every link: every package
\* outside the workspace that a member reaches.
DirectDependenciesReachable == query_forward(workspace) \ workspace

\* The packages outside the workspace that a workspace member links to.
DirectDependencies ==
    {l[2] : l \in {m \in links : in_workspace(m[1]) /\ ~in_workspace(m[2])}}

\* Every manifest is scanned: the direct dependencies of the whole workspace
\* are collected, in one of guppy's forward orders.
ResolveDirectDependencies ==
    /\ pc = "geiger"
    /\ package_paths = <<>>
    /\ direct_dependencies' \in TopoOrders(DirectDependencies)
    /\ pc' = "analyze"
    /\ UNCHANGED <<links, workspace, has_build_script, source_loc, loc_cache,
                   geiger_cache, package_paths, package, dependencies,
                   exclusive_dependencies, dep_report, exclusive_dep_report,
                   code_reports, returned_unsafe_report,
                   locHistory, geigerHistory, addVars,
                   raceVars, depdiveVars>>

\* One turn of the loop over the direct dependencies. (get_loc_report only
\* fails on a manifest path without a parent, which no package has.)
AnalyzePackage ==
    /\ pc = "analyze"
    /\ direct_dependencies # <<>>
    /\ LET pkg == Head(direct_dependencies)
       IN \E own \in {get_loc_report(loc_cache, manifest_path(pkg))} :
          \E deps \in get_package_dependencies(pkg) :
          \E all \in {get_dep_report(own.cache, geiger_cache, deps)} :
          \E exclusive \in Perms(filter_exclusive_deps(pkg, deps)) :
          \E excl \in {get_dep_report(all.cache, geiger_cache, exclusive)} :
          \E found \in {get_unsafe_report(geiger_cache, name(pkg), version(pkg))} :
            /\ own.ok /\ all.ok /\ excl.ok
            /\ package' = pkg
            /\ dependencies' = deps
            /\ dep_report' = all.report
            /\ exclusive_dependencies' = exclusive
            /\ exclusive_dep_report' = excl.report
            /\ loc_cache' = excl.cache
            /\ returned_unsafe_report' = found
            /\ loc_requests' =
                   Counted(loc_requests,
                           <<parent(manifest_path(pkg))[1]>> \o RequestedDirs(deps)
                               \o RequestedDirs(exclusive))
            /\ tokei_runs' =
                   Counted(tokei_runs, own.scanned \o all.scanned \o excl.scanned)
            /\ code_reports' = Append(code_reports,
                   [name |-> name(pkg),
                    version |-> version(pkg),
                    is_direct |-> TRUE,
                    has_build_script |-> has_build_script[pkg],
                    loc_report |-> Some(own.report),
                    unsafe_report |-> found,
                    dep_report |-> Some(all.report),
                    exclusive_dep_report |-> Some(excl.report)])
    /\ direct_dependencies' = Tail(direct_dependencies)
    /\ UNCHANGED <<links, workspace, has_build_script, source_loc, geiger_cache,
                   pc, package_paths, geigerHistory, addVars,
                   raceVars, depdiveVars>>

\* Every direct dependency is analyzed: Ok(code_reports).
ReturnReports ==
    /\ pc = "analyze"
    /\ direct_dependencies = <<>>
    /\ pc' = "done"
    /\ UNCHANGED <<links, workspace, has_build_script, source_loc, loc_cache,
                   geiger_cache, package_paths, direct_dependencies, package,
                   dependencies, exclusive_dependencies, dep_report,
                   exclusive_dep_report, code_reports, returned_unsafe_report,
                   locHistory,
                   geigerHistory, addVars,
                   raceVars, depdiveVars>>

Next ==
    \/ ScanWorkspaceMember
    \/ ScanFails
    \/ ResolveDirectDependencies
    \/ AnalyzePackage
    \/ ReturnReports

Spec == Init /\ [][Next]_vars

----------------------------------------------------------------------------
\* Calls of the + operators on any operands

\* Largest count in a field of an operand.
MaxCount == 1

\* The LOCReport operands: small counts, and the line counts 120 and 100.
LOCReports ==
    [total_loc : 0..MaxCount \cup {120}, rust_loc : 0..MaxCount \cup {100}]

\* The UnsafeDetails operands.
UnsafeDetailsValues ==
    [functions : 0..MaxCount, expressions : 0..MaxCount, impls : 0..MaxCount,
     traits : 0..MaxCount, methods : 0..MaxCount]

InitAdd ==
    /\ links = {}
    /\ workspace = {1}
    /\ has_build_script = [p \in Packages |-> FALSE]
    /\ source_loc = SourceLocFixture
    /\ loc_cache = EmptyMap
    /\ geiger_cache = EmptyMap
    /\ pc = "idle"
    /\ package_paths = <<>>
    /\ direct_dependencies = <<>>
    /\ package = 0
    /\ dependencies = <<>>
    /\ exclusive_dependencies = <<>>
    /\ dep_report = ZeroDepReport
    /\ exclusive_dep_report = ZeroDepReport
    /\ code_reports = <<>>
    /\ NothingCalled

\* self + rhs on two LOCReports.
AddLOCReports ==
    /\ pc = "idle"
    /\ \E self \in LOCReports, rhs \in LOCReports :
         /\ operands' = <<self, rhs>>
         /\ sum' = AddLOC(self, rhs)
    /\ pc' = "added LOCReport"
    /\ UNCHANGED <<links, workspace, has_build_script, source_loc, loc_cache,
                   geiger_cache, package_paths, direct_dependencies, package,
                   dependencies, exclusive_dependencies, dep_report,
                   exclusive_dep_report, code_reports, returned_unsafe_report,
                   locHistory, geigerHistory,
                   raceVars, depdiveVars>>

\* self + rhs on two UnsafeDetails.
AddUnsafeDetailsValues ==
    /\ pc = "idle"
    /\ \E self \in UnsafeDetailsValues, rhs \in UnsafeDetailsValues :
         /\ operands' = <<self, rhs>>
         /\ sum' = AddUnsafeDetails(self, rhs)
    /\ pc' = "added UnsafeDetails"
    /\ UNCHANGED <<links, workspace, has_build_script, source_loc, loc_cache,
                   geiger_cache, package_paths, direct_dependencies, package,
                   dependencies, exclusive_dependencies, dep_report,
                   exclusive_dep_report, code_reports, returned_unsafe_report,
                   locHistory, geigerHistory,
                   raceVars, depdiveVars>>

NextAdd == AddLOCReports \/ AddUnsafeDetailsValues

SpecAdd == InitAdd /\ [][NextAdd]_vars

----------------------------------------------------------------------------
\* Calls of get_loc_report that interleave

\* Number of callers of get_loc_report at a time.
NumCallers == 2

Callers == 1..NumCallers

\* The directory caller c asks the LOC report of.
DirOf(c) == parent(callers[c].path)[1]

InitRace == InitAdd

\* get_loc_report is called by every caller, each with the manifest path of
\* some package; the cache holds the reports of any of the directories.
CallGetLocReport ==
    /\ pc = "idle"
    /\ \E paths \in [Callers -> {manifest_path(p) : p \in Packages}] :
         /\ callers' = [c \in Callers |->
                           [path |-> paths[c], at |-> "lookup",
                            loc_report |-> None, returned |-> None]]
         /\ loc_requests' =
                Counted(loc_requests, [c \in Callers |-> parent(paths[c])[1]])
    /\ \E cached \in SUBSET Dirs : loc_cache' = [d \in cached |-> source_loc[d]]
    /\ pc' = "racing"
    /\ UNCHANGED <<links, workspace, has_build_script, source_loc, geiger_cache,
                   package_paths, direct_dependencies, package, dependencies,
                   exclusive_dependencies, dep_report, exclusive_dep_report,
                   code_reports, returned_unsafe_report, tokei_runs,
                   geigerHistory, addVars, depdiveVars>>

\* What a step of a caller leaves as it is.
CallerFrame ==
    UNCHANGED <<links, workspace, has_build_script, source_loc, geiger_cache,
                pc, package_paths, direct_dependencies, package, dependencies,
                exclusive_dependencies, dep_report, exclusive_dep_report,
                code_reports, returned_unsafe_report, loc_requests,
                geigerHistory, addVars, depdiveVars>>

\* The lookup: a cached report is returned, else the caller goes on to scan.
LookUp(c) ==
    /\ pc = "racing"
    /\ callers[c].at = "lookup"
    /\ callers' =
           IF DirOf(c) \in DOMAIN loc_cache
           THEN [callers EXCEPT ![c].at = "returned",
                                ![c].returned = Some(loc_cache[DirOf(c)])]
           ELSE [callers EXCEPT ![c].at = "scan"]
    /\ UNCHANGED <<loc_cache, tokei_runs>>
    /\ CallerFrame

\* tokei counts the lines of the directory.
Scan(c) ==
    /\ pc = "racing"
    /\ callers[c].at = "scan"
    /\ callers' = [callers EXCEPT ![c].at = "insert",
                                  ![c].loc_report = Some(get_statistics(DirOf(c)))]
    /\ tokei_runs' = Counted(tokei_runs, <<DirOf(c)>>)
    /\ UNCHANGED loc_cache
    /\ CallerFrame

\* The report is put in loc_cache.
PutInCache(c) ==
    /\ pc = "racing"
    /\ callers[c].at = "insert"
    /\ loc_cache' = Insert(loc_cache, DirOf(c), callers[c].loc_report[1])
    /\ callers' = [callers EXCEPT ![c].at = "read"]
    /\ UNCHANGED tokei_runs
    /\ CallerFrame

\* The entry is read back from loc_cache and returned.
ReadBack(c) ==
    /\ pc = "racing"
    /\ callers[c].at = "read"
    /\ callers' = [callers EXCEPT ![c].at = "returned",
                                  ![c].returned = Some(loc_cache[DirOf(c)])]
    /\ UNCHANGED <<loc_cache, tokei_runs>>
    /\ CallerFrame

NextRace ==
    \/ CallGetLocReport
    \/ \E c \in Callers : LookUp(c)
    \/ \E c \in Callers : Scan(c)
    \/ \E c \in Callers : PutInCache(c)
    \/ \E c \in Callers : ReadBack(c)

SpecRace == InitRace /\ [][NextRace]_vars

----------------------------------------------------------------------------
\* get_summary_report (depdive/src/lib.rs)

\* Largest number of updated dependencies of an update review.
MaxReports == 2

\* Largest number of version conflicts of an update review.
MaxConflicts == 1

\* Every sequence over S of length at most n.
SeqsUpTo(S, n) == UNION {[1..k -> S] : k \in 0..n}

\* The crate_source_diff_report of an updated version, as far as the
\* rendering reads it: absent, or with is_different unknown, false or true
\* and the file_diff_stats there or not.
CrateSourceDiffReports ==
    {None} \cup
    {Some([is_different |-> different, file_diff_stats |-> stats]) :
        different \in {None, Some(FALSE), Some(TRUE)},
        stats \in {None, Some("stats")}}

\* The reports on one updated dependency.
DepUpdateReviewReports ==
    {[updated_version |-> [crate_source_diff_report |-> diff]] :
        diff \in CrateSourceDiffReports}

\* What run_update_analyzer can return: an error, or a review with its
\* updated dependencies and version conflicts.
UpdateReviews ==
    {[ok |-> FALSE, dep_update_review_reports |-> <<>>, version_conflicts |-> <<>>]}
    \cup
    {[ok |-> TRUE, dep_update_review_reports |-> reports,
      version_conflicts |-> conflicts] :
        reports \in SeqsUpTo(DepUpdateReviewReports, MaxReports),
        conflicts \in SeqsUpTo({"DirectTransitiveVersionConflict"}, MaxConflicts)}

\* The body of the loop over the updated dependencies for one report: false
\* when it returns an error.
RenderReport(report) ==
    LET diff == report.updated_version.crate_source_diff_report
    IN IF diff = None THEN FALSE
       ELSE IF diff[1].is_different = Some(TRUE)
            THEN diff[1].file_diff_stats # None
            ELSE TRUE

\* The loop over the updated dependencies, from position i on.
RECURSIVE RenderReports(_, _)
RenderReports(reports, i) ==
    IF i > Len(reports) THEN TRUE
    ELSE IF ~RenderReport(reports[i]) THEN FALSE
         ELSE RenderReports(reports, i + 1)

\* get_summary_report, had None been returned when either list is empty.
get_summary_report_either_empty(review) ==
    IF ~review.ok THEN [ok |-> FALSE, value |-> None]
    ELSE IF review.dep_update_review_reports = <<>>
            \/ review.version_conflicts = <<>>
         THEN [ok |-> TRUE, value |-> None]
         ELSE IF ~RenderReports(review.dep_update_review_reports, 1)
              THEN [ok |-> FALSE, value |-> None]
              ELSE [ok |-> TRUE,
                    value |-> Some([updated |-> Len(review.dep_update_review_reports),
                                    conflicts |-> Len(review.version_conflicts)])]

\* get_summary_report on what run_update_analyzer returned: an error, no
\* report, or the markdown report (here what it lists).
get_summary_report(review) ==
    IF ~review.ok THEN [ok |-> FALSE, value |-> None]
    ELSE IF review.dep_update_review_reports = <<>>
            /\ review.version_conflicts = <<>>
         THEN [ok |-> TRUE, value |-> None]
         ELSE IF ~RenderReports(review.dep_update_review_reports, 1)
              THEN [ok |-> FALSE, value |-> None]
              ELSE [ok |-> TRUE,
                    value |-> Some([updated |-> Len(review.dep_update_review_reports),
                                    conflicts |-> Len(review.version_conflicts)])]

InitSummary == InitAdd

\* get_summary_report(prior_graph, post_graph), for any outcome of the
\* update analysis of the two graphs.
GetSummaryReport ==
    /\ pc = "idle"
    /\ \E review \in UpdateReviews :
         /\ update_review_report' = Some(review)
         /\ summary_report' = Some(get_summary_report(review))
    /\ pc' = "summarized"
    /\ UNCHANGED <<analyzerVars, raceVars, repo, commits, githubVars>>

NextSummary == GetSummaryReport

SpecSummary == InitSummary /\ [][NextSummary]_vars

----------------------------------------------------------------------------
\* run_update_analyzer_from_repo_commits (depdive/src/lib.rs)

\* Number of commits of the repository.
MaxCommit == 3

\* The commits of the repository.
Commits == 1..MaxCommit

\* What commit_a and commit_b can name: a commit of the repository, or (0)
\* an object id the repository does not have.
CommitIds == 0..MaxCommit

\* The error returned by a failed step.
Failed == [ok |-> FALSE, value |-> None]

\* Repository::open and repo.head()?.peel_to_commit(): the working tree is
\* at the commit HEAD points to, the starter commit.
OpenRepository ==
    /\ pc = "idle"
    /\ \E commit_a \in CommitIds, commit_b \in CommitIds :
         commits' = <<commit_a, commit_b>>
    /\ \E head \in Commits :
         repo' = [head |-> head, working_tree |-> head]
    /\ \/ pc' = "opened" /\ UNCHANGED summary_report
       \/ pc' = "returned" /\ summary_report' = Some(Failed)
    /\ UNCHANGED <<analyzerVars, raceVars, update_review_report, githubVars>>

\* The forced checkout of commit_a; a failure (an object id the repository
\* does not have, or a failed checkout) returns the error.
CheckoutCommitA ==
    /\ pc = "opened"
    /\ \/ /\ commits[1] \in Commits
          /\ repo' = [repo EXCEPT !.working_tree = commits[1]]
          /\ pc' = "at commit_a"
          /\ UNCHANGED summary_report
       \/ /\ pc' = "returned"
          /\ summary_report' = Some(Failed)
          /\ UNCHANGED repo
    /\ UNCHANGED <<analyzerVars, raceVars, update_review_report, commits, githubVars>>

\* build_graph() in the working tree at commit_a.
BuildPriorGraph ==
    /\ pc = "at commit_a"
    /\ \/ pc' = "prior graph built" /\ UNCHANGED summary_report
       \/ pc' = "returned" /\ summary_report' = Some(Failed)
    /\ UNCHANGED <<analyzerVars, raceVars, update_review_report, repo, commits,
                   githubVars>>

\* The forced checkout of commit_b.
CheckoutCommitB ==
    /\ pc = "prior graph built"
    /\ \/ /\ commits[2] \in Commits
          /\ repo' = [repo EXCEPT !.working_tree = commits[2]]
          /\ pc' = "at commit_b"
          /\ UNCHANGED summary_report
       \/ /\ pc' = "returned"
          /\ summary_report' = Some(Failed)
          /\ UNCHANGED repo
    /\ UNCHANGED <<analyzerVars, raceVars, update_review_report, commits, githubVars>>

\* build_graph() in the working tree at commit_b.
BuildPostGraph ==
    /\ pc = "at commit_b"
    /\ \/ pc' = "post graph built" /\ UNCHANGED summary_report
       \/ pc' = "returned" /\ summary_report' = Some(Failed)
    /\ UNCHANGED <<analyzerVars, raceVars, update_review_report, repo, commits,
                   githubVars>>

\* The forced checkout of the starter commit.
CheckoutStarterCommit ==
    /\ pc = "post graph built"
    /\ \/ /\ repo' = [repo EXCEPT !.working_tree = repo.head]
          /\ pc' = "restored"
          /\ UNCHANGED summary_report
       \/ /\ pc' = "returned"
          /\ summary_report' = Some(Failed)
          /\ UNCHANGED repo
    /\ UNCHANGED <<analyzerVars, raceVars, update_review_report, commits, githubVars>>

\* UpdateAnalyzer::get_summary_report(&prior_graph, &post_graph), the value
\* of the call.
SummarizeCommits ==
    /\ pc = "restored"
    /\ \E review \in UpdateReviews :
         /\ update_review_report' = Some(review)
         /\ summary_report' = Some(get_summary_report(review))
    /\ pc' = "returned"
    /\ UNCHANGED <<analyzerVars, raceVars, repo, commits, githubVars>>

InitRepo == InitAdd

NextRepo ==
    \/ OpenRepository
    \/ CheckoutCommitA
    \/ BuildPriorGraph
    \/ CheckoutCommitB
    \/ BuildPostGraph
    \/ CheckoutStarterCommit
    \/ SummarizeCommits

SpecRepo == InitRepo /\ [][NextRepo]_vars

----------------------------------------------------------------------------
\* GitHubAnalyzer (depdive/src/github.rs)

\* The count of the sends of one call stops here.
MaxSends == 3

\* The last commit lies at most this many days before or after the call.
MaxDays == 1

\* Largest stargazers_count of a repository.
MaxStars == 1

\* The status codes the GitHub API answers with.
Statuses == {200, 403, 404, 429, 500}

\* StatusCode::is_success
is_success(status) == status >= 200 /\ status < 300

\* The condition of the retry loop, had it tested 429 alone.
ThrottledOnly429(status) == status = 429

\* The condition of the retry loop of make_github_rest_api_call.
Throttled(status) == status = 429 \/ status = 403

\* One more send of the request of the call under way.
SendCount(n) == IF n < MaxSends THEN n + 1 ELSE MaxSends

\* The hosts of the repository urls.
Hosts == {"github.com", "gitlab.com"}

\* Url::path_segments of the repository urls.
PathSegments ==
    {None, Some(<<>>), Some(<<"owner">>), Some(<<"owner", "repo">>),
     Some(<<"owner", "repo.git">>)}

\* PackageMetadata::repository: none, a string that is no url, or a url.
Repositories ==
    {None, Some([parses |-> FALSE, host |-> "", path_segments |-> None])}
    \cup {Some([parses |-> TRUE, host |-> host, path_segments |-> segments]) :
            host \in Hosts, segments \in PathSegments}

\* package.repository().and_then(|r| Url::from_str(r).ok())
Url_from_str(r) == IF r = None \/ ~r[1].parses THEN None ELSE r

is_github_url(url) == url.host = "github.com"

\* repo.trim_end_matches(".git")
trim_end_matches_git(repo_name) ==
    IF repo_name = "repo.git" THEN "repo" ELSE repo_name

\* The first part of get_github_repo_fullname: owner and repository of a
\* GitHub url, None for GitHubRepoError::InvalidUrl.
repo_fullname(url) ==
    IF ~is_github_url(url) THEN None
    ELSE IF url.path_segments = None THEN None
    ELSE LET segments == url.path_segments[1]
         IN IF Len(segments) < 1 THEN None
            ELSE IF Len(segments) < 2 THEN None
            ELSE Some(<<segments[1], trim_end_matches_git(segments[2])>>)

\* is_existing_github_repo, had it reported a 404 as any other failure.
is_existing_github_repo_strict(status) ==
    IF is_success(status) THEN "true" ELSE "error"

\* is_existing_github_repo on the response of the call.
is_existing_github_repo(status) ==
    IF is_success(status) THEN "true"
    ELSE IF status = 404 THEN "false"
    ELSE "error"

\* RepoStats::default with no full_name and no default_branch.
DefaultRepoStats ==
    [full_name |-> None, default_branch |-> None, stargazers_count |-> 0,
     subscribers_count |-> 0, forks |-> 0, open_issues |-> 0]

\* ActivityMetrics::default; of the metrics, days_since_last_commit is
\* followed.
DefaultActivityMetrics == [days_since_last_commit |-> 0]

\* GitHubReport::new
GitHubReport_new(repository_url) ==
    [repository |-> repository_url, is_github_repo |-> FALSE,
     repo_stats |-> DefaultRepoStats,
     activity_metrics |-> DefaultActivityMetrics]

\* What the stats endpoint can answer for a repository.
RepoStatsValues(full_name) ==
    {[full_name |-> Some(full_name), default_branch |-> branch,
      stargazers_count |-> stars, subscribers_count |-> 0, forks |-> 0,
      open_issues |-> 0] :
        branch \in {None, Some("main")}, stars \in 0..MaxStars}

\* Utc::now(), the origin of the time axis, in seconds.
utc_now == 0

\* The committer dates of the last commit, in seconds: whole days before and
\* after utc_now, and a second or an hour off them.
CommitDates ==
    {utc_now + days * 86400 + seconds :
        days \in (0 - MaxDays)..MaxDays, seconds \in {0 - 1, 0, 1, 3600}}

\* Integer division rounding toward zero, as Rust's i64 division.
TruncDiv(a, b) == IF a >= 0 THEN a \div b ELSE 0 - ((0 - a) \div b)

\* chrono::Duration::num_days of a duration in seconds.
num_days(seconds) == TruncDiv(seconds, 86400)

\* The end of get_time_since_last_commit, from the date of the last commit.
get_time_since_last_commit(date) ==
    LET since == utc_now - date
    IN IF num_days(since) < 0
       THEN [ok |-> FALSE, value |-> 0]
       ELSE [ok |-> TRUE, value |-> since]

\* The endpoints of get_activity_metrics after the last commit, in the order
\* of the calls.
ActivityEndpoints ==
    <<"issues", "issues labeled bug", "issues labeled security", "recent commits">>

\* The endpoints read page by page.
PagedEndpoints ==
    {"issues labeled bug", "issues labeled security", "recent commits"}

\* The endpoints whose status is not looked at before the body is parsed.
UncheckedEndpoints == {"issues labeled bug", "issues labeled security"}

GitHubOk(report) == [ok |-> TRUE, report |-> Some(report)]

GitHubErr == [ok |-> FALSE, report |-> None]

\* analyze_github returns.
Return(result) ==
    /\ pc' = "returned"
    /\ github_report' = Some(result)
    /\ UNCHANGED <<endpoint, response, sends>>

\* The next call of make_github_rest_api_call.
NextCall(api_endpoint) ==
    /\ endpoint' = api_endpoint
    /\ response' = None
    /\ sends' = 0
    /\ UNCHANGED <<pc, github_report>>

\* analyze_github up to the first request: the repository url of the package
\* and the owner and repository it names.
AnalyzeGithub ==
    /\ pc = "idle"
    /\ \E r \in Repositories :
         /\ repository' = r
         /\ LET url == Url_from_str(r)
            IN IF url = None
               THEN Return(GitHubOk(GitHubReport_new(None)))
               ELSE IF repo_fullname(url[1]) = None
                    THEN Return(GitHubOk(GitHubReport_new(r)))
                    ELSE /\ pc' = "calling"
                         /\ endpoint' = "repos (exists)"
                         /\ UNCHANGED <<response, sends, github_report>>
    /\ UNCHANGED <<analyzerVars, raceVars, updateVars, last_commit_date, duration,
                   repo_stats>>

\* self.client.get(api_endpoint).send()?: an answer of the server, or a
\* failure that ends analyze_github.
SendRequest ==
    /\ \/ /\ \E status \in Statuses : response' = Some(status)
          /\ sends' = SendCount(sends)
          /\ UNCHANGED <<pc, github_report>>
       \/ /\ pc' = "returned"
          /\ github_report' = Some(GitHubErr)
          /\ response' = None
          /\ UNCHANGED sends
    /\ UNCHANGED <<analyzerVars, raceVars, updateVars, repository, endpoint,
                   last_commit_date, duration, repo_stats>>

\* The first send of make_github_rest_api_call.
Send ==
    /\ pc = "calling"
    /\ response = None
    /\ SendRequest

\* The body of the retry loop: the status is 429 or 403, sleep and send again.
Retry ==
    /\ pc = "calling"
    /\ response # None
    /\ Throttled(response[1])
    /\ SendRequest

\* make_github_rest_api_call has returned its response.
Answered ==
    /\ pc = "calling"
    /\ response # None
    /\ ~Throttled(response[1])

\* The end of get_github_repo_fullname and what analyze_github does with it.
GetGithubRepoFullname ==
    /\ Answered
    /\ endpoint = "repos (exists)"
    /\ LET existing == is_existing_github_repo(response[1])
       IN IF existing = "true" THEN NextCall("repos (stats)")
          ELSE IF existing = "false"
               THEN Return(GitHubOk(GitHubReport_new(repository)))
               ELSE Return(GitHubErr)
    /\ UNCHANGED <<analyzerVars, raceVars, updateVars, repository,
                   last_commit_date, duration, repo_stats>>

\* get_github_repo_stats and the default branch.
GetGithubRepoStats ==
    /\ Answered
    /\ endpoint = "repos (stats)"
    /\ IF ~is_success(response[1])
       THEN Return(GitHubErr) /\ UNCHANGED repo_stats
       ELSE \/ Return(GitHubErr) /\ UNCHANGED repo_stats
            \/ \E stats \in RepoStatsValues(repo_fullname(repository[1])[1]) :
                 /\ repo_stats' = Some(stats)
                 /\ IF stats.default_branch = None
                    THEN Return(GitHubErr)
                    ELSE NextCall("commits")
    /\ UNCHANGED <<analyzerVars, raceVars, updateVars, repository,
                   last_commit_date, duration>>

\* get_time_since_last_commit on the response of the commits endpoint.
GetTimeSinceLastCommit ==
    /\ Answered
    /\ endpoint = "commits"
    /\ IF ~is_success(response[1])
       THEN Return(GitHubErr) /\ UNCHANGED <<last_commit_date, duration>>
       ELSE \/ Return(GitHubErr) /\ UNCHANGED <<last_commit_date, duration>>
            \/ \E date \in CommitDates :
                 /\ last_commit_date' = date
                 /\ duration' = Some(get_time_since_last_commit(date))
                 /\ IF get_time_since_last_commit(date).ok
                    THEN NextCall(ActivityEndpoints[1])
                    ELSE Return(GitHubErr)
    /\ UNCHANGED <<analyzerVars, raceVars, updateVars, repository, repo_stats>>

\* The rest of get_activity_metrics, call by call, and the report of
\* analyze_github after the last one.
GetActivityMetrics ==
    /\ Answered
    /\ \E i \in 1..Len(ActivityEndpoints) :
         /\ endpoint = ActivityEndpoints[i]
         /\ \/ Return(GitHubErr)
            \/ /\ endpoint \in UncheckedEndpoints \/ is_success(response[1])
               /\ \/ /\ endpoint \in PagedEndpoints
                     /\ NextCall(endpoint)
                  \/ IF i < Len(ActivityEndpoints)
                     THEN NextCall(ActivityEndpoints[i + 1])
                     ELSE Return(GitHubOk(
                            [repository |-> repository,
                             is_github_repo |-> TRUE,
                             repo_stats |-> repo_stats[1],
                             activity_metrics |->
                                [days_since_last_commit |->
                                    num_days(duration[1].value)]]))
    /\ UNCHANGED <<analyzerVars, raceVars, updateVars, repository,
                   last_commit_date, duration, repo_stats>>

InitGithub == InitAdd

NextGithub ==
    \/ AnalyzeGithub
    \/ Send
    \/ Retry
    \/ GetGithubRepoFullname
    \/ GetGithubRepoStats
    \/ GetTimeSinceLastCommit
    \/ GetActivityMetrics

SpecGithub == InitGithub /\ [][NextGithub]_vars

----------------------------------------------------------------------------
\* Properties of filter_exclusive_deps (SpecFilter)

\* After a call: R is `package`, D the set of `dependencies`, M = D + {R},
\* and the returned exclusive set the set of `exclusive_dependencies`.
Filtered == pc = "filtered"
D == SeqToSet(dependencies)
M == D \cup {package}
Exclusive == SeqToSet(exclusive_dependencies)

\* C1: the set returned by filter_exclusive_deps(R, D) is a subset of D and
\* never contains R, for every graph, root and ordering of D.
C1_ExclusiveWithinDependencies ==
    Filtered => Exclusive \subseteq D /\ package \notin Exclusive

\* A call that kept some dependencies and dropped others.
C1_Witness ==
    Filtered /\ Exclusive # {} /\ Exclusive # D

\* C2: the exclusive set does not depend on the order of the input list:
\* every ordering of the same transitive set yields the set just returned.
C2_OrderIndependent ==
    Filtered => \A order \in Perms(D) :
                    filter_exclusive_deps(package, order) = Exclusive

\* C3: no package of the returned exclusive set has a direct dependent that
\* is in D but outside the returned set (classified shared).
C3_SharedIsSticky ==
    Filtered => \A d \in Exclusive :
                    \A from_id \in reverse_direct_links(d) :
                        from_id \in D => from_id \in Exclusive

\* The links are those of the diamond a -> {b, c}, b -> {d}, c -> {d}.
IsDiamond(a, b, c, d) ==
    /\ Cardinality({a, b, c, d}) = 4
    /\ links = {<<a, b>>, <<a, c>>, <<b, d>>, <<c, d>>}

\* C4 as claimed: in the diamond with root a, transitive(a) = {b, c, d}, d is
\* shared and exclusive(a) = {b, c}.
C4_DiamondSharesD ==
    (Filtered /\ Cardinality(links) = 4) =>
        \A b, c, d \in Packages :
            IsDiamond(package, b, c, d) => D = {b, c, d} /\ Exclusive = {b, c}

\* C4 as amended: in the diamond with root a, transitive(a) = {b, c, d} and
\* all three are exclusive, d included (both its dependents are in M).
C4_DiamondKeepsD ==
    (Filtered /\ Cardinality(links) = 4) =>
        \A b, c, d \in Packages :
            IsDiamond(package, b, c, d) => D = {b, c, d} /\ Exclusive = {b, c, d}

\* The filter was called on the root of a diamond.
C4_Witness ==
    /\ Filtered
    /\ \E b, c, d \in Packages : IsDiamond(package, b, c, d)

\* C5: if no package of D has a direct dependent outside M, every package of
\* D is exclusive, however many paths lead to it inside M (the chain
\* a -> {b}, b -> {d} gives exclusive(a) = {b, d}).
C5_NoOutsideDependentAllExclusive ==
    Filtered => ((\A d \in D : reverse_direct_links(d) \subseteq M) => Exclusive = D)

\* No dependency has an outside dependent, and one of them is reached over
\* two links from inside M.
C5_Witness ==
    /\ Filtered
    /\ \A d \in D : reverse_direct_links(d) \subseteq M
    /\ \E d \in D : Cardinality(reverse_direct_links(d)) >= 2

\* C6 as claimed: every d in D whose direct dependents all lie in M is in the
\* returned set.
C6_NoExternalDependentIsExclusive ==
    Filtered => \A d \in D :
                    reverse_direct_links(d) \subseteq M => d \in Exclusive

\* C6 as amended: every d in D whose direct dependents all lie in M, none of
\* them classified shared (each is R or in the returned set), is in the
\* returned set.
C6_NoExternalNoSharedDependentIsExclusive ==
    Filtered => \A d \in D :
                    reverse_direct_links(d) \subseteq (Exclusive \cup {package})
                        => d \in Exclusive

\* A call that kept a dependency whose dependents include an exclusive
\* package besides the root.
C6_Witness ==
    /\ Filtered
    /\ \E d \in Exclusive :
         /\ reverse_direct_links(d) \subseteq (Exclusive \cup {package})
         /\ reverse_direct_links(d) \cap Exclusive # {}

\* The list s names every package before the packages it depends on.
IsForwardOrder(s) ==
    \A i, j \in 1..Len(s) : <<s[i], s[j]>> \in links => i < j

\* C27: on a list in the order of get_package_dependencies (every package
\* before the packages it depends on) the single pass returns the fixpoint
\* classification: d is in the result if and only if every direct dependent
\* of d is the root or is in the result.
C27_ForwardOrderGivesFixpoint ==
    (Filtered /\ IsForwardOrder(dependencies)) =>
        \A d \in D :
            d \in Exclusive <=>
                \A x \in reverse_direct_links(d) : x = package \/ x \in Exclusive

\* A forward order with a dependency that is shared only through a shared
\* dependent inside the tree.
C27_Witness ==
    /\ Filtered
    /\ IsForwardOrder(dependencies)
    /\ \E d \in D \ Exclusive :
          /\ reverse_direct_links(d) \subseteq D
          /\ reverse_direct_links(d) # {}

----------------------------------------------------------------------------
\* Properties of get_dep_report (SpecDep)

\* After a call: the package set is the set of `dependencies`, the returned
\* report is `dep_report`.
Reported == pc = "reported"
DepSet == SeqToSet(dependencies)

\* The sum of f over the finite set S.
RECURSIVE SumFn(_, _)
SumFn(f, S) ==
    IF S = {} THEN 0
    ELSE LET x == CHOOSE y \in S : TRUE
         IN f[x] + SumFn(f, S \ {x})

\* What the line counter reports for package p.
LocOf(p) == source_loc[parent(manifest_path(p))[1]]

\* The scanner's record of package p in the geiger cache, if it has one.
KeyOf(p) == <<name(p), version(p)>>
Scanned(p) == KeyOf(p) \in DOMAIN geiger_cache
UnsafetyOf(p) == geiger_cache[KeyOf(p)].unsafety

\* C8: total_deps is the number of distinct packages of the set,
\* deps_total_loc_report the field-wise sum of their LOC reports and
\* deps_with_build_script the number of them with a build script.
C8_DepReportTotals ==
    Reported =>
        /\ dep_report.total_deps = Cardinality(DepSet)
        /\ dep_report.deps_total_loc_report.total_loc =
               SumFn([p \in DepSet |-> LocOf(p).total_loc], DepSet)
        /\ dep_report.deps_total_loc_report.rust_loc =
               SumFn([p \in DepSet |-> LocOf(p).rust_loc], DepSet)
        /\ dep_report.deps_with_build_script =
               Cardinality({p \in DepSet : has_build_script[p]})

\* A report over several packages with different LOC reports, some with a
\* build script and some without.
C8_Witness ==
    /\ Reported
    /\ \E p, q \in DepSet :
         /\ LocOf(p) # LocOf(q)
         /\ has_build_script[p]
         /\ ~has_build_script[q]

\* C9: deps_analyzed_for_unsafe counts the packages with a present unsafe
\* report, deps_forbidding_unsafe those whose report forbids unsafe, and
\* deps_using_unsafe those whose report does not forbid it and has used
\* unsafe expressions.
C9_UnsafeCounters ==
    Reported =>
        /\ dep_report.deps_analyzed_for_unsafe =
               Cardinality({p \in DepSet : Scanned(p)})
        /\ dep_report.deps_forbidding_unsafe =
               Cardinality({p \in DepSet : Scanned(p) /\ UnsafetyOf(p).forbids_unsafe})
        /\ dep_report.deps_using_unsafe =
               Cardinality({p \in DepSet :
                              /\ Scanned(p)
                              /\ ~UnsafetyOf(p).forbids_unsafe
                              /\ UnsafetyOf(p).used.exprs.unsafe_ > 0})

\* A report over a package the scanner left out, a package that forbids
\* unsafe yet has used unsafe expressions, and a package that uses unsafe.
C9_Witness ==
    /\ Reported
    /\ dep_report.deps_using_unsafe > 0
    /\ \E p, q \in DepSet :
         /\ ~Scanned(p)
         /\ Scanned(q) /\ UnsafetyOf(q).forbids_unsafe
         /\ UnsafetyOf(q).used.exprs.unsafe_ > 0

\* The packages of the set with a present unsafe report.
ScannedDeps == {p \in DepSet : Scanned(p)}

\* C10: each of the five fields of deps_total_used_unsafe_details is the sum
\* of the same field of used_unsafe_count over the packages with a present
\* unsafe report, forbidding packages included.
C10_UsedUnsafeDetailsSummed ==
    Reported =>
        LET total == dep_report.deps_total_used_unsafe_details
        IN /\ total.functions =
                  SumFn([p \in ScannedDeps |-> UnsafetyOf(p).used.functions.unsafe_],
                        ScannedDeps)
           /\ total.expressions =
                  SumFn([p \in ScannedDeps |-> UnsafetyOf(p).used.exprs.unsafe_],
                        ScannedDeps)
           /\ total.impls =
                  SumFn([p \in ScannedDeps |-> UnsafetyOf(p).used.item_impls.unsafe_],
                        ScannedDeps)
           /\ total.traits =
                  SumFn([p \in ScannedDeps |-> UnsafetyOf(p).used.item_traits.unsafe_],
                        ScannedDeps)
           /\ total.methods =
                  SumFn([p \in ScannedDeps |-> UnsafetyOf(p).used.methods.unsafe_],
                        ScannedDeps)

\* The field-wise combination of two DepReports: + of LOCReport and of
\* UnsafeDetails, integer addition of the counters.
CombineDepReports(a, b) ==
    [total_deps |-> a.total_deps + b.total_deps,
     deps_total_loc_report |->
         AddLOC(a.deps_total_loc_report, b.deps_total_loc_report),
     deps_with_build_script |-> a.deps_with_build_script + b.deps_with_build_script,
     deps_analyzed_for_unsafe |->
         a.deps_analyzed_for_unsafe + b.deps_analyzed_for_unsafe,
     deps_forbidding_unsafe |-> a.deps_forbidding_unsafe + b.deps_forbidding_unsafe,
     deps_using_unsafe |-> a.deps_using_unsafe + b.deps_using_unsafe,
     deps_total_used_unsafe_details |->
         AddUnsafeDetails(a.deps_total_used_unsafe_details,
                          b.deps_total_used_unsafe_details)]

\* get_dep_report over the part of `dependencies` from position i to j.
ReportOfPart(i, j) ==
    get_dep_report(loc_cache, geiger_cache, SubSeq(dependencies, i, j)).report

\* A cached record whose used counts would show impls taken for expressions.
ImplsDifferOf(p) ==
    /\ Scanned(p)
    /\ UnsafetyOf(p).used.item_impls.unsafe_ # UnsafetyOf(p).used.exprs.unsafe_

\* C11: get_dep_report of the empty list is the all-zero report, and for
\* every split of a list in two disjoint parts A and B the field-wise
\* combination of get_dep_report(A) and get_dep_report(B) is the report of
\* the whole list.
C11_DepReportSumLaws ==
    Reported =>
        /\ dependencies = <<>> => dep_report = ZeroDepReport
        /\ \A k \in 0..Len(dependencies) :
               CombineDepReports(ReportOfPart(1, k),
                                 ReportOfPart(k + 1, Len(dependencies)))
                   = dep_report

C11_Witness ==
    /\ Reported
    /\ \E k \in 1..(Len(dependencies) - 1) :
          /\ \E i \in 1..k : ImplsDifferOf(dependencies[i])
          /\ \E j \in (k + 1)..Len(dependencies) : ImplsDifferOf(dependencies[j])

\* C16: whenever cargo geiger returned several records for one key, over
\* the runs for several manifests or within one run, the geiger cache holds
\* the record it returned first, and none of the later ones.
C16_FirstResultWins ==
    /\ DOMAIN geiger_cache = DOMAIN geiger_first
    /\ \A k \in DOMAIN geiger_cache : geiger_cache[k] = geiger_first[k]

\* Two runs of cargo geiger, and a key given with two different records.
C16_Witness ==
    /\ Len(geiger_runs) >= 2
    /\ package_paths = <<>>
    /\ geiger_diverged # {}

\* The numbers of unsafe items of the five kinds of a scanner count.
UnsafeCounts(info) ==
    [functions |-> info.functions.unsafe_,
     expressions |-> info.exprs.unsafe_,
     impls |-> info.item_impls.unsafe_,
     traits |-> info.item_traits.unsafe_,
     methods |-> info.methods.unsafe_]

\* C17: a call of get_unsafe_report runs no scanner and leaves both caches
\* as they are; it returns a report exactly when the package's key is in the
\* geiger cache, and the report holds the cached record's forbids_unsafe flag
\* and the unsafe counts of its used and unused code.
C17_UnsafeReportIsLookup ==
    [][pc' = "looked up" /\ pc # "looked up" =>
          /\ geiger_cache' = geiger_cache
          /\ loc_cache' = loc_cache
          /\ geiger_runs' = geiger_runs
          /\ tokei_runs' = tokei_runs
          /\ returned_unsafe_report' # None <=> KeyOf(package') \in DOMAIN geiger_cache
          /\ returned_unsafe_report' # None =>
                LET cached == geiger_cache[KeyOf(package')].unsafety
                IN returned_unsafe_report' =
                       Some([forbids_unsafe |-> cached.forbids_unsafe,
                             used_unsafe_count |-> UnsafeCounts(cached.used),
                             unused_unsafe_count |-> UnsafeCounts(cached.unused)])
      ]_vars

\* A lookup that found a record with unsafe items.
C17_Witness ==
    /\ pc = "looked up"
    /\ returned_unsafe_report # None
    /\ returned_unsafe_report[1].used_unsafe_count # ZeroUnsafeDetails
    /\ returned_unsafe_report[1].unused_unsafe_count # ZeroUnsafeDetails

\* C28: in every report of get_dep_report the forbidding and the using
\* packages together are no more than the analyzed ones, the analyzed ones
\* no more than total_deps, and the packages with a build script no more
\* than total_deps.
C28_DepReportInequalities ==
    Reported =>
        /\ dep_report.deps_forbidding_unsafe + dep_report.deps_using_unsafe
               <= dep_report.deps_analyzed_for_unsafe
        /\ dep_report.deps_analyzed_for_unsafe <= dep_report.total_deps
        /\ dep_report.deps_with_build_script <= dep_report.total_deps

\* A list with a package without a record, a package that forbids unsafe
\* and still has unsafe expressions, and a package that uses unsafe.
C28_Witness ==
    /\ Reported
    /\ \E p \in DepSet : ~Scanned(p)
    /\ \E p \in ScannedDeps :
          UnsafetyOf(p).forbids_unsafe /\ UnsafetyOf(p).used.exprs.unsafe_ > 0
    /\ dep_report.deps_using_unsafe >= 1
    /\ dep_report.deps_with_build_script >= 1

----------------------------------------------------------------------------
\* Properties of the + operators (SpecAdd)

AddedLOC == pc = "added LOCReport"
AddedUnsafe == pc = "added UnsafeDetails"

\* C12: + of LOCReport and + of UnsafeDetails are commutative and
\* associative, and the all-zero value is neutral on both sides.
C12_CommutativeMonoid ==
    /\ AddedLOC =>
          LET a == operands[1]
              b == operands[2]
          IN /\ sum = AddLOC(b, a)
             /\ \A c \in LOCReports : AddLOC(sum, c) = AddLOC(a, AddLOC(b, c))
             /\ AddLOC(ZeroLOC, a) = a
             /\ AddLOC(a, ZeroLOC) = a
    /\ AddedUnsafe =>
          LET a == operands[1]
              b == operands[2]
          IN /\ sum = AddUnsafeDetails(b, a)
             /\ \A c \in UnsafeDetailsValues :
                    AddUnsafeDetails(sum, c)
                        = AddUnsafeDetails(a, AddUnsafeDetails(b, c))
             /\ AddUnsafeDetails(ZeroUnsafeDetails, a) = a
             /\ AddUnsafeDetails(a, ZeroUnsafeDetails) = a

\* C13: every field of a + b is the sum of the same field of a and of b, for
\* UnsafeDetails and for LOCReport; {120, 100} + {120, 100} = {240, 200}.
C13_AddIsFieldWise ==
    /\ AddedUnsafe =>
          /\ sum.functions = operands[1].functions + operands[2].functions
          /\ sum.expressions = operands[1].expressions + operands[2].expressions
          /\ sum.impls = operands[1].impls + operands[2].impls
          /\ sum.traits = operands[1].traits + operands[2].traits
          /\ sum.methods = operands[1].methods + operands[2].methods
    /\ AddedLOC =>
          /\ sum.total_loc = operands[1].total_loc + operands[2].total_loc
          /\ sum.rust_loc = operands[1].rust_loc + operands[2].rust_loc
          /\ operands = <<[total_loc |-> 120, rust_loc |-> 100],
                          [total_loc |-> 120, rust_loc |-> 100]>>
                => sum = [total_loc |-> 240, rust_loc |-> 200]

----------------------------------------------------------------------------
\* Properties of analyze_code (Spec)

\* A direct dependency was analyzed: `package` is that root and
\* `exclusive_dependencies` the exclusive set its exclusive_dep_report counts.
Analyzed == pc \in {"analyze", "done"} /\ package # 0

RECURSIVE ReachAvoiding(_, _, _)
ReachAvoiding(frontier, seen, avoided) ==
    IF frontier \subseteq seen THEN seen
    ELSE ReachAvoiding(
             UNION {direct_links(p) : p \in frontier} \ (seen \cup frontier \cup {avoided}),
             seen \cup frontier, avoided)

\* The packages another direct dependency reaches without passing through
\* the analyzed one.
ReachedAround(other) == ReachAvoiding({other}, {}, package) \ {other}

ReportedPackage(code_report) == code_report.name[2]

\* C14: tokei is run at most once on each directory over a run, however
\* often get_loc_report is called for it: a directory asked for was scanned
\* exactly once, its cache entry is what that scan counted, and the LOC
\* report of every CodeReport is that count.
C14_SingleScan ==
    /\ \A d \in Dirs :
          /\ tokei_runs[d] <= 1
          /\ loc_requests[d] >= 1 => tokei_runs[d] = 1
          /\ tokei_runs[d] = 1 <=> d \in DOMAIN loc_cache
          /\ d \in DOMAIN loc_cache => loc_cache[d] = source_loc[d]
    /\ \A i \in 1..Len(code_reports) :
          code_reports[i].loc_report = Some(LocOf(ReportedPackage(code_reports[i])))

\* A directory asked for by the reports of two direct dependencies.
C14_Witness ==
    /\ pc = "done"
    /\ \E d \in Dirs : loc_requests[d] >= 3 /\ tokei_runs[d] = 1

\* The entries of `before` are entries of `after`, unchanged.
Kept(before, after) ==
    \A k \in DOMAIN before : k \in DOMAIN after /\ after[k] = before[k]

\* C15: an entry of loc_cache or of geiger_cache is never changed or removed
\* by a later step of the run.
C15_CachesWriteOnce ==
    [][Kept(loc_cache, loc_cache') /\ Kept(geiger_cache, geiger_cache')]_vars

\* A later scan gave another record for a cached key, and a cached
\* directory was asked for again.
C15_Witness ==
    /\ pc = "done"
    /\ geiger_diverged # {}
    /\ \E d \in Dirs : loc_requests[d] >= 2

\* The sequence s without its element at position i.
Without(s, i) == SubSeq(s, 1, i - 1) \o SubSeq(s, i + 1, Len(s))

\* What a package of the list deps that no scan reported adds to the report
\* over deps: one to total_deps and its lines of code, nothing else.
GapsAddNoUnsafe(deps, report) ==
    \A i \in 1..Len(deps) :
        ~Scanned(deps[i]) =>
            LET rest == get_dep_report(loc_cache, geiger_cache, Without(deps, i)).report
            IN /\ report.deps_analyzed_for_unsafe = rest.deps_analyzed_for_unsafe
               /\ report.deps_forbidding_unsafe = rest.deps_forbidding_unsafe
               /\ report.deps_using_unsafe = rest.deps_using_unsafe
               /\ report.deps_total_used_unsafe_details =
                      rest.deps_total_used_unsafe_details
               /\ report.total_deps = rest.total_deps + 1
               /\ report.deps_total_loc_report =
                      AddLOC(rest.deps_total_loc_report, LocOf(deps[i]))

\* C18: a package that no run of the scanner reported has no unsafe report,
\* from get_unsafe_report and in its CodeReport; in the report of a list
\* that holds it, it adds nothing to the four unsafe fields, one to
\* total_deps and its lines of code to deps_total_loc_report.
C18_ScannerGap ==
    /\ \A i \in 1..Len(code_reports) :
          ~Scanned(ReportedPackage(code_reports[i])) =>
              code_reports[i].unsafe_report = None
    /\ Analyzed =>
          /\ ~Scanned(package) => returned_unsafe_report = None
          /\ GapsAddNoUnsafe(dependencies, dep_report)
          /\ GapsAddNoUnsafe(exclusive_dependencies, exclusive_dep_report)

\* A direct dependency without a record, and a report over a list holding
\* packages with a record and a package without one.
C18_Witness ==
    /\ pc = "done"
    /\ \E i \in 1..Len(code_reports) : code_reports[i].unsafe_report = None
    /\ \E j \in 1..Len(code_reports) :
          LET report == code_reports[j].dep_report[1]
          IN /\ report.deps_analyzed_for_unsafe >= 1
             /\ report.total_deps > report.deps_analyzed_for_unsafe

\* The positions of the log `runs` at which cargo geiger was run on `path`.
RunsOn(runs, path) == {i \in 1..Len(runs) : runs[i].path = path}

\* C19: when analyze_code assembles its first CodeReport, and when it
\* returns its reports, cargo geiger has been run exactly once on the
\* manifest of each workspace member, every run succeeded, and no CodeReport
\* exists while manifests are left to scan.
C19_ScannerOncePerMember ==
    /\ pc = "geiger" => code_reports = <<>>
    /\ (code_reports # <<>> \/ pc = "done") =>
          /\ package_paths = <<>>
          /\ Len(geiger_runs) = Cardinality(workspace)
          /\ \A w \in workspace : Cardinality(RunsOn(geiger_runs, manifest_path(w))) = 1
          /\ \A i \in 1..Len(geiger_runs) : geiger_runs[i].ok

\* A run over two workspace members that returned reports.
C19_Witness ==
    /\ pc = "done"
    /\ Cardinality(workspace) >= 2
    /\ code_reports # <<>>

\* The positions of geiger_runs at which cargo geiger failed.
FailedRuns(runs) == {i \in 1..Len(runs) : ~runs[i].ok}

\* C20: once a run of cargo geiger fails, analyze_code has returned the
\* error: the failed run is the last run, on a manifest scanned that one time
\* only, the geiger cache is as it was before the failed run, there is no
\* CodeReport, and nothing happens afterwards.
C20_ScannerFailureIsFatal ==
    [][/\ FailedRuns(geiger_runs') # {} =>
             /\ pc' = "failed"
             /\ FailedRuns(geiger_runs') = {Len(geiger_runs')}
             /\ Cardinality(RunsOn(geiger_runs', geiger_runs'[Len(geiger_runs')].path)) = 1
             /\ code_reports' = <<>>
       /\ FailedRuns(geiger_runs') # FailedRuns(geiger_runs) =>
             geiger_cache' = geiger_cache
       /\ pc = "failed" => UNCHANGED vars
      ]_vars

\* cargo geiger failed on the first of two manifests.
C20_Witness ==
    /\ pc = "failed"
    /\ Len(geiger_runs) = 1
    /\ Len(package_paths) >= 2

\* The packages outside the workspace that are the target of a link from a
\* workspace member.
DirectTargets ==
    {p \in Packages \ workspace : \E w \in workspace : <<w, p>> \in links}

\* The packages p depends on, directly or not.
TransitiveSet(p) == query_forward({p}) \ {p}

\* C21: a successful analyze_code returns one CodeReport for each direct
\* dependency and for no other package; each record has is_direct set and a
\* LOC report, a dep_report over the package's whole transitive set and an
\* exclusive_dep_report over the set filter_exclusive_deps returned.
C21_OneReportPerDirectDependency ==
    /\ pc = "done" =>
          /\ Len(code_reports) = Cardinality(DirectTargets)
          /\ {ReportedPackage(code_reports[i]) : i \in 1..Len(code_reports)}
                 = DirectTargets
    /\ \A i \in 1..Len(code_reports) :
          LET code_report == code_reports[i]
              p == ReportedPackage(code_report)
          IN /\ p \in DirectTargets
             /\ code_report.is_direct
             /\ code_report.loc_report # None
             /\ code_report.dep_report # None
             /\ code_report.exclusive_dep_report # None
             /\ code_report.dep_report[1].total_deps = Cardinality(TransitiveSet(p))
             /\ code_report.dep_report[1].deps_total_loc_report.total_loc =
                    SumFn([q \in TransitiveSet(p) |-> LocOf(q).total_loc],
                          TransitiveSet(p))
             /\ code_report.exclusive_dep_report[1].total_deps
                    <= code_report.dep_report[1].total_deps
    /\ Analyzed =>
          LET last == code_reports[Len(code_reports)]
          IN /\ ReportedPackage(last) = package
             /\ D = TransitiveSet(package)
             /\ last.dep_report = Some(dep_report)
             /\ Exclusive = filter_exclusive_deps(package, dependencies)
             /\ last.exclusive_dep_report = Some(exclusive_dep_report)
             /\ exclusive_dep_report =
                    get_dep_report(loc_cache, geiger_cache,
                                   exclusive_dependencies).report

\* Two direct dependencies reported on, and a package that is none.
C21_Witness ==
    /\ pc = "done"
    /\ Len(code_reports) >= 2
    /\ query_forward(workspace) \ (workspace \cup DirectTargets) # {}
    /\ exclusive_dep_report.total_deps >= 1

\* The CodeReport of direct dependency p computed from the graph, the line
\* counts and the geiger cache alone, over one fixed ordering of p's
\* dependencies and the ascending list of its exclusive dependencies.
ExpectedCodeReport(p) ==
    LET deps == CHOOSE order \in get_package_dependencies(p) : TRUE
        exclusive == Ascending(filter_exclusive_deps(p, deps))
    IN [name |-> name(p),
        version |-> version(p),
        is_direct |-> TRUE,
        has_build_script |-> has_build_script[p],
        loc_report |-> Some(LocOf(p)),
        unsafe_report |-> get_unsafe_report(geiger_cache, name(p), version(p)),
        dep_report |-> Some(get_dep_report(EmptyMap, geiger_cache, deps).report),
        exclusive_dep_report |->
            Some(get_dep_report(EmptyMap, geiger_cache, exclusive).report)]

\* C22: the CodeReport of a direct dependency is a function of the graph,
\* the line counts and the geiger cache: whatever order the exclusive
\* dependencies are handed to get_dep_report in, and whatever the loc cache
\* holds, the record is the same.
C22_ReportsDeterministic ==
    Analyzed => code_reports[Len(code_reports)] = ExpectedCodeReport(package)

\* Exclusive dependencies with different records, handed over in another
\* order than the ascending one.
C22_Witness ==
    /\ Analyzed
    /\ Len(exclusive_dependencies) >= 2
    /\ exclusive_dependencies # Ascending(Exclusive)
    /\ \E p, q \in Exclusive :
          /\ Scanned(p) /\ Scanned(q)
          /\ UnsafetyOf(p) # UnsafetyOf(q)
    /\ loc_cache # EmptyMap

\* Every caller has its report.
AllReturned == pc = "racing" /\ \A c \in Callers : callers[c].at = "returned"

Renders(review) ==
    \A i \in 1..Len(review.dep_update_review_reports) :
        LET diff == review.dep_update_review_reports[i]
                        .updated_version.crate_source_diff_report
        IN /\ diff # None
           /\ diff[1].is_different = Some(TRUE) => diff[1].file_diff_stats # None

\* C23: get_summary_report returns Ok(None) exactly when the update review
\* has no updated dependency and no version conflict; when it has one or
\* the other and every report renders, it returns a markdown report.
C23_SummaryAbsentIffNothingToReport ==
    pc = "summarized" =>
        LET review == update_review_report[1]
            returned == summary_report[1]
            nothing == /\ review.dep_update_review_reports = <<>>
                       /\ review.version_conflicts = <<>>
        IN /\ (returned.ok /\ returned.value = None) <=> (review.ok /\ nothing)
           /\ (review.ok /\ ~nothing /\ Renders(review)) =>
                  (returned.ok /\ returned.value # None)

\* A review with a version conflict and no updated dependency, reported on.
C23_Witness ==
    /\ pc = "summarized"
    /\ update_review_report[1].ok
    /\ update_review_report[1].dep_update_review_reports = <<>>
    /\ update_review_report[1].version_conflicts # <<>>
    /\ summary_report[1].value # None

\* C30: whenever run_update_analyzer_from_repo_commits has returned, with a
\* report or with an error, the working tree is at the commit HEAD pointed to
\* when the call started.
C30_WorkingTreeRestored ==
    pc = "returned" => repo.working_tree = repo.head

C25_OkDurationNeverNegative ==
    (duration # None /\ duration[1].ok) =>
        /\ duration[1].value >= 0
        /\ last_commit_date <= utc_now

\* C29: make_github_rest_api_call never returns a response of status 429 or
\* 403: from such a response the only steps are another send of the same
\* request, however many were sent before, and the failure of that send.
C29_ThrottledResponsesAreRetried ==
    [][(pc = "calling" /\ response \in {Some(429), Some(403)}) =>
          \/ /\ pc' = "calling"
             /\ endpoint' = endpoint
             /\ response' # None
             /\ sends' = SendCount(sends)
             /\ github_report' = github_report
          \/ /\ pc' = "returned"
             /\ response' = None
             /\ ~github_report'[1].ok]_vars

\* A request sent MaxSends times or more and still answered 403.
C29_Witness ==
    /\ pc = "calling"
    /\ sends = MaxSends
    /\ response = Some(403)

====
